---- MODULE Spec2Model ----
(***************************************************************************)
(* Model of src/tls/rollout.py: run() resolves the configuration, builds   *)
(* and restores the agent and calls rollout(); rollout() drives the        *)
(* environment with the policy's actions and writes the results.           *)
(*                                                                         *)
(* SpecRun     : run(), lines 87-118                                       *)
(* SpecRollout : rollout(), lines 121-209                                  *)
(***************************************************************************)
EXTENDS Integers, Sequences, FiniteSets, TLC

VARIABLES
    \* ---- run() ----
    fs,             \* params.pkl in the checkpoint dir and in its parent
    args,           \* parsed command line
    config,         \* local variable config of run()
    run_pc,         \* position inside run()
    raised,         \* how run() ended abnormally, "none" otherwise
    ray_inited,     \* ray.init() was called
    agent,          \* the agent object built by cls(env=..., config=...)
    rollout_call,   \* the arguments of the call rollout(...)
    \* ---- rollout(): parameters ----
    ro_agent,       \* the agent argument: local_evaluator, config, policies
    env,            \* the environment object: its action space
    num_steps,      \* parameter num_steps
    out,            \* parameter out, "None" or a file name
    no_render,      \* parameter no_render
    \* ---- rollout(): local variables ----
    ro_pc,          \* position inside rollout()
    multiagent,
    mapping_cache,
    state_init,
    use_lstm,
    steps,
    rollout,
    state,
    done,
    reward_total,
    reward_for_each,
    statistics,
    time,
    \* ---- rollout(): calls made and files written ----
    reset_state,    \* what env.reset() returned
    compute_log,    \* the calls agent.compute_action(...), in order
    step_log,       \* the calls env.step(...), in order, with their results
    map_calls,      \* per agent id, the invocations of policy_mapping_fn
    renders,        \* the calls env.render()
    stats_file,     \* simulation_statistics.json
    out_file        \* the file named by out

run_vars == <<fs, args, config, run_pc, raised, ray_inited, agent, rollout_call>>

ro_params == <<ro_agent, env, num_steps, out, no_render>>

ro_locals == <<multiagent, mapping_cache, state_init, use_lstm, steps, rollout, state,
               done, reward_total, reward_for_each, statistics, time>>

ro_effects == <<reset_state, compute_log, step_log, map_calls, renders, stats_file, out_file>>

ro_vars == <<ro_params, ro_pc, ro_locals, ro_effects>>

vars == <<run_vars, ro_vars>>

\* ------------------------------------------------------------------ dicts

EmptyDict == [k \in {} |-> ""]

\* Python truthiness of a dict / of a string
DictFalsy(d) == DOMAIN d = {}

StrFalsy(s) == s = ""

\* dict.get(key) with the default None rendered as the empty (falsy) string
DictGet(d, key) == IF key \in DOMAIN d THEN d[key] ELSE ""

\* del d[key]
DictDel(d, key) == [k \in (DOMAIN d) \ {key} |-> d[k]]

\* ray.tune.util.merge_dicts on flat dicts: a copy of d1 updated with d2
merge_dicts(d1, d2) ==
    [k \in (DOMAIN d1) \cup (DOMAIN d2) |-> IF k \in DOMAIN d2 THEN d2[k] ELSE d1[k]]

\* ------------------------------------------------------------------ inputs

File(c) == [exists |-> TRUE, content |-> c]

NoFile == [exists |-> FALSE, content |-> EmptyDict]

PklContents ==
    { [num_workers |-> "4", env |-> "SUMOEnv-v0"],
      [num_gpus_per_worker |-> "1", lr |-> "0.01"],
      [lr |-> "0.01"] }

PklFiles == {NoFile} \cup { File(c) : c \in PklContents }

CliConfigs ==
    { EmptyDict,
      [env |-> "CartPole-v0"],
      [num_workers |-> "2"],
      [lr |-> "0.5", num_gpus_per_worker |-> "2"] }

CliEnvs == {"", "SUMOEnv-v0"}

CliSteps == {"0", "1", "10000"}

CliOuts == {"None", "rollouts.pkl"}

NoAgent == [constructed |-> FALSE, env |-> "", config |-> EmptyDict, restored |-> FALSE]

NoCall == [called |-> FALSE, env_name |-> "", num_steps |-> 0, out |-> "None", no_render |-> FALSE]

\* ------------------------------------------------------------------ rollout(): values

None == "None"

AgentIds == {"a1", "a2"}

PolicyIds == {"default", "shared"}

\* a value passed as state= or held in state_init: the dict policy -> state
\* list built at line 130, or one policy's state list
StateDict(m) == [tag |-> "dict", map |-> m, list |-> <<>>]

StateList(l) == [tag |-> "list", map |-> <<>>, list |-> l]

NoFileWritten == [written |-> 0, content |-> <<>>]

NoRolloutAgent == [has_local_evaluator |-> FALSE, multiagent |-> FALSE,
                   clip_actions |-> FALSE, initial_state |-> <<>>]

\* the value of rollout()'s variables when rollout() is not running
RolloutIdle ==
    /\ ro_agent = NoRolloutAgent
    /\ env = [action_space |-> [kind |-> "Discrete", low |-> 0, high |-> 0]]
    /\ num_steps = 0
    /\ out = None
    /\ no_render = TRUE
    /\ ro_pc = "idle"
    /\ multiagent = FALSE
    /\ mapping_cache = <<>>
    /\ state_init = StateDict(<<>>)
    /\ use_lstm = <<>>
    /\ steps = 0
    /\ rollout = <<>>
    /\ state = None
    /\ done = FALSE
    /\ reward_total = 0
    /\ reward_for_each = <<>>
    /\ statistics = <<>>
    /\ time = 0
    /\ reset_state = None
    /\ compute_log = <<>>
    /\ step_log = <<>>
    /\ map_calls = [a \in AgentIds |-> 0]
    /\ renders = 0
    /\ stats_file = NoFileWritten
    /\ out_file = NoFileWritten

\* ------------------------------------------------------------------ run()

\* variant of ConfigPath that never falls back to the parent directory
ConfigPathDirOnly(f) == "dir"

\* lines 90-93: params.pkl of the checkpoint dir, else the one of its parent
ConfigPath(f) == IF f.dir.exists THEN "dir" ELSE "parent"

PathExists(f, p) == IF p = "dir" THEN f.dir.exists ELSE f.parent.exists

PickleLoad(f, p) == IF p = "dir" THEN f.dir.content ELSE f.parent.content

\* lines 102-105
StripWorkers(c) ==
    LET c1 == IF "num_workers" \in DOMAIN c THEN DictDel(c, "num_workers") ELSE c
    IN  IF "num_gpus_per_worker" \in DOMAIN c1 THEN DictDel(c1, "num_gpus_per_worker") ELSE c1

\* lines 94-98: the condition under which run() raises ValueError
RaisesValueError(f, a) == ~PathExists(f, ConfigPath(f)) /\ DictFalsy(a.config)

\* line 117: int(args.steps) on the decimal strings of CliSteps
PyInt(str) == CASE str = "0" -> 0 [] str = "1" -> 1 [] str = "10000" -> 10000

\* lines 88-106: the value of config after the merge
ResolvedConfig(f, a) ==
    LET p      == ConfigPath(f)
        loaded == IF PathExists(f, p) THEN PickleLoad(f, p) ELSE EmptyDict
    IN  merge_dicts(StripWorkers(loaded), a.config)

InitRun ==
    /\ fs \in [dir : PklFiles, parent : PklFiles]
    /\ args \in [config : CliConfigs, env : CliEnvs, steps : CliSteps,
                 out : CliOuts, no_render : BOOLEAN]
    /\ config = EmptyDict
    /\ run_pc = "resolve"
    /\ raised = "none"
    /\ ray_inited = FALSE
    /\ agent = NoAgent
    /\ rollout_call = NoCall
    /\ RolloutIdle

\* lines 88-106
ResolveConfig ==
    /\ run_pc = "resolve"
    /\ IF RaisesValueError(fs, args)
       THEN /\ raised' = "ValueError"
            /\ run_pc' = "exit"
            /\ UNCHANGED config
       ELSE /\ config' = ResolvedConfig(fs, args)
            /\ run_pc' = "env"
            /\ UNCHANGED raised
    /\ UNCHANGED <<fs, args, ray_inited, agent, rollout_call>>
    /\ UNCHANGED ro_vars

\* lines 107-110
ResolveEnv ==
    /\ run_pc = "env"
    /\ IF StrFalsy(args.env)
       THEN IF StrFalsy(DictGet(config, "env"))
            THEN /\ raised' = "parser.error"
                 /\ run_pc' = "exit"
                 /\ UNCHANGED args
            ELSE /\ args' = [args EXCEPT !.env = DictGet(config, "env")]
                 /\ run_pc' = "ray_init"
                 /\ UNCHANGED raised
       ELSE /\ run_pc' = "ray_init"
            /\ UNCHANGED <<args, raised>>
    /\ UNCHANGED <<fs, config, ray_inited, agent, rollout_call>>
    /\ UNCHANGED ro_vars

\* line 112
RayInit ==
    /\ run_pc = "ray_init"
    /\ ray_inited' = TRUE
    /\ run_pc' = "construct"
    /\ UNCHANGED <<fs, args, config, raised, agent, rollout_call>>
    /\ UNCHANGED ro_vars

\* lines 114-115
ConstructAgent ==
    /\ run_pc = "construct"
    /\ agent' = [constructed |-> TRUE, env |-> args.env, config |-> config, restored |-> FALSE]
    /\ run_pc' = "restore"
    /\ UNCHANGED <<fs, args, config, raised, ray_inited, rollout_call>>
    /\ UNCHANGED ro_vars

\* line 116
RestoreAgent ==
    /\ run_pc = "restore"
    /\ agent' = [agent EXCEPT !.restored = TRUE]
    /\ run_pc' = "rollout"
    /\ UNCHANGED <<fs, args, config, raised, ray_inited, rollout_call>>
    /\ UNCHANGED ro_vars

\* lines 117-118
CallRollout ==
    /\ run_pc = "rollout"
    /\ rollout_call' = [called |-> TRUE, env_name |-> args.env, num_steps |-> PyInt(args.steps),
                        out |-> args.out, no_render |-> args.no_render]
    /\ run_pc' = "exit"
    /\ UNCHANGED <<fs, args, config, raised, ray_inited, agent>>
    /\ UNCHANGED ro_vars

NextRun ==
    \/ ResolveConfig
    \/ ResolveEnv
    \/ RayInit
    \/ ConstructAgent
    \/ RestoreAgent
    \/ CallRollout

SpecRun == InitRun /\ [][NextRun]_vars

\* ------------------------------------------------------------------ rollout(): inputs

\* cap on the iterations of the loop of line 146 that are explored
MaxSteps == 2

Box01 == [kind |-> "Box", low |-> 0, high |-> 1]

Discrete == [kind |-> "Discrete", low |-> 0, high |-> 2]

\* get_initial_state() of every policy: empty for a stateless policy
InitialStates ==
    { [p \in PolicyIds |-> <<>>],
      [p \in PolicyIds |-> <<"h0">>],
      [p \in PolicyIds |-> IF p = "shared" THEN <<"h0">> ELSE <<>>] }

RolloutAgents ==
    { [has_local_evaluator |-> FALSE, multiagent |-> FALSE,
       clip_actions |-> c, initial_state |-> [p \in PolicyIds |-> <<>>]] : c \in BOOLEAN }
    \cup
    [has_local_evaluator : {TRUE}, multiagent : BOOLEAN,
     clip_actions : BOOLEAN, initial_state : InitialStates]

\* what agent.compute_action can return: the action and, for a recurrent
\* policy, the new hidden state
PolicyOutcomes == { [action |-> 0, h |-> "h1"], [action |-> 2, h |-> "h2"] }

SingleObs == {"o1", "o2"}

\* a multi-agent observation: the (agent id, observation) items of the dict
MultiObs ==
    { << <<"a1", "o1">>, <<"a2", "o1">> >>,
      << <<"a1", "o2">>, <<"a2", None>> >> }

\* what env.step can return
EnvOutcomesSingle ==
    { [next_state |-> "o1", reward |-> 1, done |-> FALSE, stat |-> [queue |-> 1]],
      [next_state |-> "o2", reward |-> 2, done |-> FALSE, stat |-> [queue |-> 2]],
      [next_state |-> "o2", reward |-> 0, done |-> TRUE,  stat |-> [queue |-> 0]] }

DoneDict(all, d1, d2) ==
    [k \in {"__all__", "a1", "a2"} |-> IF k = "__all__" THEN all ELSE IF k = "a1" THEN d1 ELSE d2]

EnvOutcomesMulti ==
    { [next_state |-> << <<"a1", "o2">>, <<"a2", "o1">> >>,
       reward |-> [a \in AgentIds |-> IF a = "a1" THEN 1 ELSE 2],
       done |-> DoneDict(FALSE, FALSE, FALSE), stat |-> [queue |-> 1]],
      [next_state |-> << <<"a1", "o1">>, <<"a2", None>> >>,
       reward |-> [a \in {"a1"} |-> 3],
       done |-> DoneDict(FALSE, FALSE, TRUE), stat |-> [queue |-> 2]],
      [next_state |-> << <<"a1", "o2">>, <<"a2", "o2">> >>,
       reward |-> [a \in AgentIds |-> 0],
       done |-> DoneDict(TRUE, TRUE, TRUE), stat |-> [queue |-> 0]] }

RunIdle ==
    /\ fs = [dir |-> NoFile, parent |-> NoFile]
    /\ args = [config |-> EmptyDict, env |-> "", steps |-> "0", out |-> None, no_render |-> FALSE]
    /\ config = EmptyDict
    /\ run_pc = "idle"
    /\ raised = "none"
    /\ ray_inited = FALSE
    /\ agent = NoAgent
    /\ rollout_call = NoCall

\* ------------------------------------------------------------------ rollout(): helpers

\* variant of StepLimit without the "or steps + 1"
StepLimitPlain(n, s) == n

\* line 146: num_steps or steps + 1
StepLimit(n, s) == IF n = 0 THEN s + 1 ELSE n

\* variant of LoopCond that does not test done
LoopCondNoDone(d, s, n) == s < StepLimit(n, s)

\* line 146: the loop condition
LoopCond(d, s, n) == ~d /\ s < StepLimit(n, s)

\* lines 152-153: mapping_cache.setdefault(agent_id, v)
Setdefault(d, k, v) ==
    IF k \in DOMAIN d THEN d ELSE [x \in (DOMAIN d) \cup {k} |-> IF x = k THEN v ELSE d[x]]

\* ray.rllib.evaluation.sampler.clip_action: np.clip for a Box space, the
\* action itself for any other space
clip_action(action, space) ==
    IF space.kind = "Box"
    THEN IF action < space.low THEN space.low
         ELSE IF action > space.high THEN space.high ELSE action
    ELSE action

\* lines 173-177: the action env.step is called with
SteppedAction(action, clip, space) == IF clip THEN clip_action(action, space) ELSE action

\* line 180 (multi-agent) and line 175/177 (single agent): the value of done
EpisodeDone(multi, d) == IF multi THEN d["__all__"] ELSE d

RECURSIVE SumValues(_)
\* sum(reward.values())
SumValues(r) ==
    IF DOMAIN r = {} THEN 0
    ELSE LET k == CHOOSE x \in DOMAIN r : TRUE
         IN  r[k] + SumValues([x \in (DOMAIN r) \ {k} |-> r[x]])

\* lines 182-183 on a defaultdict(int)
AddRewards(rfe, r) ==
    [k \in (DOMAIN rfe) \cup (DOMAIN r) |->
        (IF k \in DOMAIN rfe THEN rfe[k] ELSE 0) + (IF k \in DOMAIN r THEN r[k] ELSE 0)]

\* variant of TrajectoryEntry that stores the action env.step was called with
TrajectoryEntryStepped(s, action, stepped, next_state, reward, d) ==
    [state |-> s, action |-> stepped, next_state |-> next_state, reward |-> reward, done |-> d]

\* line 198: the list appended to the trajectory
TrajectoryEntry(s, action, stepped, next_state, reward, d) ==
    [state |-> s, action |-> action, next_state |-> next_state, reward |-> reward, done |-> d]

\* variant of NextLoopState that keeps the old observation
NextLoopStateStale(s, next_state) == s

\* line 200
NextLoopState(s, next_state) == next_state

\* lines 188-192
StatisticsRecord(stat, rfe, t) == [statistics |-> stat, episode_reward |-> rfe, timestamp |-> t]

\* lines 167-171: the single-agent branch of the loop body
SingleAct(po, acc) ==
    IF use_lstm["default"]
    THEN [acc EXCEPT
            !.action = po.action,
            !.compute_log = Append(@, [step |-> steps, agent_id |-> "single",
                                       policy_id |-> "default", lstm |-> TRUE,
                                       state_in |-> acc.state_init,
                                       action |-> po.action, state_out |-> <<po.h>>]),
            !.state_init = StateList(<<po.h>>)]
    ELSE [acc EXCEPT
            !.action = po.action,
            !.compute_log = Append(@, [step |-> steps, agent_id |-> "single",
                                       policy_id |-> "default", lstm |-> FALSE,
                                       state_in |-> StateList(<<>>),
                                       action |-> po.action, state_out |-> <<>>])]

\* lines 150-164: the body of the for loop for one item of state
AgentAct(agent_id, a_state, po, mapped, acc) ==
    IF a_state = None THEN acc
    ELSE
    LET cache     == Setdefault(acc.mapping_cache, agent_id, mapped)
        policy_id == cache[agent_id]
        calls     == [acc.map_calls EXCEPT ![agent_id] = @ + 1]
        a_dict    == [x \in (DOMAIN acc.action) \cup {agent_id} |->
                         IF x = agent_id THEN po.action ELSE acc.action[x]]
    IN  IF use_lstm[policy_id]
        THEN [action |-> a_dict, mapping_cache |-> cache, map_calls |-> calls,
              compute_log |-> Append(acc.compute_log,
                   [step |-> steps, agent_id |-> agent_id, policy_id |-> policy_id,
                    lstm |-> TRUE, state_in |-> StateList(acc.state_init.map[policy_id]),
                    action |-> po.action, state_out |-> <<po.h>>]),
              state_init |-> StateDict([acc.state_init.map EXCEPT ![policy_id] = <<po.h>>])]
        ELSE [action |-> a_dict, mapping_cache |-> cache, map_calls |-> calls,
              compute_log |-> Append(acc.compute_log,
                   [step |-> steps, agent_id |-> agent_id, policy_id |-> policy_id,
                    lstm |-> FALSE, state_in |-> StateList(<<>>),
                    action |-> po.action, state_out |-> <<>>]),
              state_init |-> acc.state_init]

RECURSIVE MultiAct(_, _, _, _, _)
\* lines 148-165: the for loop over state.keys(), from item i on
MultiAct(items, i, pol, mp, acc) ==
    IF i > Len(items) THEN acc
    ELSE MultiAct(items, i + 1, pol, mp,
                  AgentAct(items[i][1], items[i][2], pol[items[i][1]], mp[items[i][1]], acc))

\* ------------------------------------------------------------------ rollout()

InitRollout ==
    /\ RunIdle
    /\ ro_agent \in RolloutAgents
    /\ env \in [action_space : IF ro_agent.multiagent THEN {Discrete} ELSE {Box01, Discrete}]
    /\ num_steps \in 0..MaxSteps
    /\ out \in CliOuts
    /\ no_render \in BOOLEAN
    /\ ro_pc = "setup"
    /\ multiagent = FALSE
    /\ mapping_cache = <<>>
    /\ state_init = StateDict(<<>>)
    /\ use_lstm = <<>>
    /\ steps = 0
    /\ rollout = <<>>
    /\ state = None
    /\ done = FALSE
    /\ reward_total = 0
    /\ reward_for_each = <<>>
    /\ statistics = <<>>
    /\ time = 0
    /\ reset_state = None
    /\ compute_log = <<>>
    /\ step_log = <<>>
    /\ map_calls = [a \in AgentIds |-> 0]
    /\ renders = 0
    /\ stats_file = NoFileWritten
    /\ out_file = NoFileWritten

\* lines 122-145
Setup ==
    /\ ro_pc = "setup"
    /\ multiagent' = (ro_agent.has_local_evaluator /\ ro_agent.multiagent)
    /\ mapping_cache' = <<>>
    /\ state_init' = StateDict(ro_agent.initial_state)
    /\ use_lstm' = IF ro_agent.has_local_evaluator
                   THEN [p \in PolicyIds |-> Len(ro_agent.initial_state[p]) > 0]
                   ELSE [p \in {"default"} |-> FALSE]
    /\ steps' = 0
    /\ rollout' = <<>>
    /\ \E s0 \in (IF ro_agent.has_local_evaluator /\ ro_agent.multiagent
                  THEN MultiObs ELSE SingleObs) :
          /\ state' = s0
          /\ reset_state' = s0
    /\ done' = FALSE
    /\ reward_total' = 0
    /\ reward_for_each' = <<>>
    /\ statistics' = <<>>
    /\ time' = -5
    /\ ro_pc' = "loop"
    /\ UNCHANGED <<ro_params, compute_log, step_log, map_calls, renders, stats_file, out_file>>
    /\ UNCHANGED run_vars

\* lines 146-200: one iteration of the loop
Step ==
    /\ ro_pc = "loop"
    /\ LoopCond(done, steps, num_steps)
    /\ steps < MaxSteps
    /\ \E pol \in [AgentIds -> PolicyOutcomes], mp \in [AgentIds -> PolicyIds],
          envo \in (IF multiagent THEN EnvOutcomesMulti ELSE EnvOutcomesSingle) :
        LET acc0 == [action |-> <<>>, mapping_cache |-> mapping_cache, map_calls |-> map_calls,
                     compute_log |-> compute_log, state_init |-> state_init]
            acc  == IF multiagent THEN MultiAct(state, 1, pol, mp, acc0)
                                  ELSE SingleAct(pol["a1"], acc0)
            stepped == SteppedAction(acc.action, ro_agent.clip_actions, env.action_space)
            d    == EpisodeDone(multiagent, envo.done)
            rfe  == IF multiagent THEN AddRewards(reward_for_each, envo.reward)
                                  ELSE reward_for_each
        IN  /\ mapping_cache' = acc.mapping_cache
            /\ map_calls' = acc.map_calls
            /\ compute_log' = acc.compute_log
            /\ state_init' = acc.state_init
            /\ step_log' = Append(step_log, [action |-> stepped, result |-> envo])
            /\ done' = d
            /\ reward_total' = reward_total +
                   (IF multiagent THEN SumValues(envo.reward) ELSE envo.reward)
            /\ reward_for_each' = rfe
            /\ time' = IF multiagent THEN time + 5 ELSE time
            /\ statistics' = IF multiagent
                             THEN Append(statistics, StatisticsRecord(envo.stat, rfe, time + 5))
                             ELSE statistics
            /\ renders' = IF ~no_render THEN renders + 1 ELSE renders
            /\ rollout' = IF out # None
                          THEN Append(rollout, TrajectoryEntry(state, acc.action, stepped,
                                                  envo.next_state, envo.reward, d))
                          ELSE rollout
            /\ steps' = steps + 1
            /\ state' = NextLoopState(state, envo.next_state)
    /\ UNCHANGED <<ro_params, ro_pc, multiagent, use_lstm, reset_state, stats_file, out_file>>
    /\ UNCHANGED run_vars

\* lines 202-209: the loop has ended, the results are written
Finish ==
    /\ ro_pc = "loop"
    /\ ~LoopCond(done, steps, num_steps)
    /\ stats_file' = [written |-> stats_file.written + 1, content |-> statistics]
    /\ out_file' = IF out # None
                   THEN [written |-> out_file.written + 1, content |-> rollout]
                   ELSE out_file
    /\ ro_pc' = "finished"
    /\ UNCHANGED <<ro_params, ro_locals, reset_state, compute_log, step_log, map_calls, renders>>
    /\ UNCHANGED run_vars

NextRollout ==
    \/ Setup
    \/ Step
    \/ Finish

SpecRollout == InitRollout /\ [][NextRollout]_vars

\* ------------------------------------------------------------------ properties of run()

\* C1: the config passed to the agent constructor contains neither
\* 'num_workers' nor 'num_gpus_per_worker', whichever source supplied them.
C1_WorkerKeysStripped ==
    agent.constructed =>
        /\ "num_workers" \notin DOMAIN agent.config
        /\ "num_gpus_per_worker" \notin DOMAIN agent.config

\* C2: a non-empty --config suppresses loading from the checkpoint: the
\* config passed to the agent constructor is args.config alone.
C2_ConfigSuppressesCheckpoint ==
    (agent.constructed /\ DOMAIN args.config # {}) =>
        /\ DOMAIN agent.config = DOMAIN args.config
        /\ \A k \in DOMAIN args.config : agent.config[k] = args.config[k]

\* C3: run() raises ValueError exactly when params.pkl is in neither
\* directory and --config is empty, and it does so before ray.init, the
\* construction of the agent, the restore and the rollout.
C3_ValueErrorExactly ==
    /\ run_pc = "resolve" =>
          (raised = "none" /\ ~ray_inited /\ ~agent.constructed /\ ~rollout_call.called)
    /\ run_pc \notin {"resolve", "idle"} =>
          ((raised = "ValueError") <=>
           (~fs.dir.exists /\ ~fs.parent.exists /\ DOMAIN args.config = {}))
    /\ raised = "ValueError" =>
          (~ray_inited /\ ~agent.constructed /\ ~agent.restored /\ ~rollout_call.called)

C3_Witness ==
    /\ run_pc = "exit"
    /\ raised = "ValueError"
    /\ ~fs.dir.exists /\ ~fs.parent.exists

\* ------------------------------------------------------------------ properties of rollout()

\* the done flag of the i-th env.step: the flag itself for a single agent,
\* the value under "__all__" for several agents
ReportedDone(i) ==
    IF ro_agent.has_local_evaluator /\ ro_agent.multiagent
    THEN step_log[i].result.done["__all__"]
    ELSE step_log[i].result.done

EpisodeReportedDone == step_log # <<>> /\ ReportedDone(Len(step_log))

C5_NoActionAfterDone ==
    /\ [][EpisodeReportedDone => (compute_log' = compute_log /\ step_log' = step_log)]_vars
    /\ []((ro_pc = "finished" /\ multiagent) =>
            (EpisodeReportedDone \/ (num_steps >= 1 /\ Len(step_log) >= num_steps)))

C5_Witness ==
    /\ ro_pc = "finished"
    /\ multiagent
    /\ EpisodeReportedDone
    /\ \E i \in 1..(Len(step_log) - 1) :
          /\ step_log[i].result.done["a2"]
          /\ ~step_log[i].result.done["__all__"]
          /\ \E j \in 1..Len(compute_log) : compute_log[j].step = i

RECURSIVE AgentRewardUpTo(_, _)
\* the reward env.step reported for agent a in the steps 1..k
AgentRewardUpTo(a, k) ==
    IF k = 0 THEN 0
    ELSE AgentRewardUpTo(a, k - 1) +
         (IF a \in DOMAIN step_log[k].result.reward THEN step_log[k].result.reward[a] ELSE 0)

RewardUpTo(k) ==
    [a \in UNION { DOMAIN step_log[j].result.reward : j \in 1..k } |-> AgentRewardUpTo(a, k)]

\* C6: single-agent or multi-agent, the statistics written at the end hold
\* one record per environment step, in step order; record k (from 0) has
\* timestamp 5*k and the per-agent reward accumulated over steps 0..k.
C6_OneRecordPerStep ==
    /\ Len(statistics) = Len(step_log)
    /\ \A k \in 1..Len(statistics) :
          /\ statistics[k].timestamp = 5 * (k - 1)
          /\ statistics[k].statistics = step_log[k].result.stat
          /\ multiagent => statistics[k].episode_reward = RewardUpTo(k)
    /\ ro_pc = "finished" => (stats_file.written = 1 /\ stats_file.content = statistics)

\* C7: with out given the trajectory has one entry per environment step, in
\* order, starting from env.reset(), each entry starting where the previous
\* one ended, only the last one done, written once after the loop; with out
\* None nothing is recorded or written.
C7_Trajectory ==
    /\ out # None =>
          /\ Len(rollout) = Len(step_log)
          /\ Len(rollout) >= 1 => rollout[1].state = reset_state
          /\ \A i \in 1..Len(rollout) :
                /\ rollout[i].next_state = step_log[i].result.next_state
                /\ rollout[i].reward = step_log[i].result.reward
                /\ rollout[i].done = ReportedDone(i)
          /\ \A i \in 1..(Len(rollout) - 1) :
                /\ rollout[i + 1].state = rollout[i].next_state
                /\ ~rollout[i].done
          /\ out_file.written = (IF ro_pc = "finished" THEN 1 ELSE 0)
          /\ ro_pc = "finished" => out_file.content = rollout
    /\ out = None => (rollout = <<>> /\ out_file = NoFileWritten)

C7_Witness ==
    /\ out # None
    /\ ro_pc = "finished"
    /\ Len(rollout) >= 2
    /\ rollout[Len(rollout)].done
    /\ rollout[2].state # rollout[1].state
    /\ out_file.written = 1

\* the earlier compute_action calls made for the agent of call i
EarlierCalls(i) == { j \in 1..(i - 1) : compute_log[j].agent_id = compute_log[i].agent_id }

LastOf(S) == CHOOSE j \in S : \A k \in S : k <= j

\* C8: for a recurrent policy the state passed to compute_action for an
\* agent is the policy's initial state on the agent's first action and
\* afterwards the state returned by that agent's own previous call.
C8_HiddenStateThreaded ==
    \A i \in 1..Len(compute_log) :
        compute_log[i].lstm =>
            compute_log[i].state_in =
                IF EarlierCalls(i) = {}
                THEN StateList(ro_agent.initial_state[compute_log[i].policy_id])
                ELSE StateList(compute_log[LastOf(EarlierCalls(i))].state_out)

\* C9: the policy-mapping function is invoked at most once per agent id, and
\* an agent is always acted on by the policy it was first mapped to.
C9_MappingInvokedOnce ==
    /\ \A a \in AgentIds : map_calls[a] <= 1
    /\ \A i, j \in 1..Len(compute_log) :
          compute_log[i].agent_id = compute_log[j].agent_id =>
              compute_log[i].policy_id = compute_log[j].policy_id

\* the action agent.compute_action returned in the i-th iteration
RawAction(i) ==
    LET calls == { j \in 1..Len(compute_log) : compute_log[j].step = i - 1 }
    IN  IF multiagent
        THEN [a \in { compute_log[j].agent_id : j \in calls } |->
                 compute_log[CHOOSE j \in calls : compute_log[j].agent_id = a].action]
        ELSE compute_log[CHOOSE j \in calls : TRUE].action

\* C10: the action stored in a trajectory entry is the action that was
\* passed to env.step in that step, with clip_actions false and true.
C10_StoredIsStepped ==
    out # None =>
        \A i \in 1..Len(rollout) : rollout[i].action = step_log[i].action

\* C10 as amended: the entry stores the action the policy returned; env.step
\* gets that action when clip_actions is false and its clipping when true.
C10_Amended ==
    out # None =>
        \A i \in 1..Len(rollout) :
            /\ rollout[i].action = RawAction(i)
            /\ step_log[i].action =
                  IF ro_agent.clip_actions
                  THEN clip_action(rollout[i].action, env.action_space)
                  ELSE rollout[i].action

C10_Witness ==
    /\ out # None
    /\ ro_agent.clip_actions
    /\ \E i \in 1..Len(rollout) :
          /\ rollout[i].action # step_log[i].action
          /\ rollout[i].action = RawAction(i)

\* ------------------------------------------------------------------ how far C6, C8 and C9 do hold

\* the statistics of a multi-agent rollout: one record per step
MultiAgentStatistics == multiagent => C6_OneRecordPerStep

\* the hidden state of a multi-agent rollout in which no two agents are
\* mapped to the same policy
UnsharedHiddenState ==
    (multiagent /\ \A a, b \in DOMAIN mapping_cache :
                      a # b => mapping_cache[a] # mapping_cache[b])
        => C8_HiddenStateThreaded

\* an agent is always acted on by the policy it was first mapped to
CachedPolicyKept ==
    \A i, j \in 1..Len(compute_log) :
        compute_log[i].agent_id = compute_log[j].agent_id =>
            compute_log[i].policy_id = compute_log[j].policy_id

====
